---------------------------- MODULE Spec2Model ----------------------------
(***************************************************************************)
(* volk_32f_sin_32f: element-wise sine of a float array, as the generic    *)
(* kernel and the six vector kernels of kernels/volk/volk_32f_sin_32f.h.   *)
(*                                                                         *)
(* A float is its IEEE-754 binary32 image [sign, exp, frac]; every         *)
(* intrinsic is modelled per lane with round-to-nearest-even, the MXCSR    *)
(* default.  A lane mask is the all-ones or the all-zeros image.           *)
(***************************************************************************)
EXTENDS Integers, Sequences, FiniteSets, TLC

(***************************************************************************)
(* binary32 images                                                         *)
(***************************************************************************)
\* With([v \in {e} |-> b]) is b with v standing for the value of e.
With(f) == f[CHOOSE v \in DOMAIN f : TRUE]

Pow2Tab == [n \in 0..30 |-> 2^n]
Pow2(n) == Pow2Tab[n]

Two12 == 2^12
Two23 == 2^23
Two24 == 2^24
MaxInt32 == (2^30 - 1) + 2^30
MinInt32 == (0 - MaxInt32) - 1

F32(sg, ex, fr) == [sign |-> sg, exp |-> ex, frac |-> fr]

PosZero  == F32(0, 0, 0)
AllOnes  == F32(1, 255, Two23 - 1)       \* 0xFFFFFFFF, the lane mask "true"
DefaultNaN == F32(1, 255, 2^22)          \* 0xFFC00000, the x86 real indefinite
Infinity(sg) == F32(sg, 255, 0)

IsNaN(a)  == a.exp = 255 /\ a.frac # 0
IsInf(a)  == a.exp = 255 /\ a.frac = 0
IsZero(a) == a.exp = 0 /\ a.frac = 0
IsFinite(a) == a.exp # 255

BitLen(n) == IF n = 0 THEN 0
             ELSE CHOOSE k \in 1..31 : Pow2(k - 1) <= n /\ (k = 31 \/ n < Pow2(k))

\* |a| = Mant(a) * 2^Expo(a), Mant(a) in [2^23, 2^24) for every nonzero finite a
\* (a subnormal is shifted up to that form).
RawMant(a) == IF a.exp = 0 THEN a.frac ELSE Two23 + a.frac
RawExpo(a) == IF a.exp = 0 THEN 0 - 149 ELSE a.exp - 150
Mant(a) == RawMant(a) * Pow2(24 - BitLen(RawMant(a)))
Expo(a) == RawExpo(a) - (24 - BitLen(RawMant(a)))

\* The binary32 nearest to (M + e) * 2^E, ties to even, where 0 <= M < 2^31 and
\* 0 <= e < 1 with e > 0 exactly when sticky.
RoundPack(sg, M, E, sticky) ==
  IF M = 0 THEN F32(sg, 0, 0)
  ELSE
    With([L \in {BitLen(M)} |->
    With([e1 \in {IF E + L - 24 < 0 - 149 THEN 0 - 149 ELSE E + L - 24} |->
    With([shift \in {e1 - E} |->
    With([q \in {IF shift <= 0 THEN M * Pow2(0 - shift)
        ELSE IF shift >= 31 THEN 0 ELSE M \div Pow2(shift)} |->
    With([rem \in {IF shift <= 0 THEN 0
        ELSE IF shift >= 31 THEN M ELSE M % Pow2(shift)} |->
    With([half \in {IF shift <= 0 THEN 1
        ELSE IF shift >= 32 THEN MaxInt32 ELSE Pow2(shift - 1)} |->
    With([up \in {shift > 0 /\ (rem > half \/ (rem = half /\ (sticky \/ q % 2 = 1)))} |->
    With([m0 \in {IF up THEN q + 1 ELSE q} |->
    With([m \in {IF m0 = Two24 THEN Two23 ELSE m0} |->
    With([e \in {IF m0 = Two24 THEN e1 + 1 ELSE e1} |->
    IF m < Two23 THEN F32(sg, 0, m)
    ELSE IF e + 150 >= 255 THEN Infinity(sg)
    ELSE F32(sg, e + 150, m - Two23)
    ])])])])])])])])])])

\* A wide natural <<hi, lo>> = hi * 2^24 + lo, lo < 2^24, hi < 2^30.
WShr(w, k) ==
  IF k >= 54 THEN <<0, 0, w[1] # 0 \/ w[2] # 0>>
  ELSE IF k >= 24
    THEN With([p \in {Pow2(k - 24)} |->
         <<0, w[1] \div p, w[2] # 0 \/ w[1] % p # 0>>])
    ELSE With([p \in {Pow2(k)} |->
         <<w[1] \div p, (w[1] % p) * Pow2(24 - k) + w[2] \div p, w[2] % p # 0>>])

WShl(w, k) ==
  IF k >= 24 THEN <<w[2] * Pow2(k - 24), 0>>
  ELSE With([p \in {Pow2(24 - k)} |->
       <<w[1] * Pow2(k) + w[2] \div p, (w[2] % p) * Pow2(k)>>])

WAdd(x, y) ==
  With([l \in {x[2] + y[2]} |-> <<x[1] + y[1] + l \div Two24, l % Two24>>])

\* x - y for x >= y
WSub(x, y) ==
  IF x[2] < y[2] THEN <<x[1] - y[1] - 1, x[2] + Two24 - y[2]>>
  ELSE <<x[1] - y[1], x[2] - y[2]>>

WLess(x, y) == x[1] < y[1] \/ (x[1] = y[1] /\ x[2] < y[2])

\* The exact 48-bit product of two 24-bit mantissas.
WMul(a, b) ==
  With([mid \in {(a \div Two12) * (b % Two12) + (a % Two12) * (b \div Two12)} |->
  With([l \in {(a % Two12) * (b % Two12) + (mid % Two12) * Two12} |->
  <<(a \div Two12) * (b \div Two12) + mid \div Two12 + l \div Two24, l % Two24>>])])

\* The binary32 nearest to (w + e) * 2^E for a wide w.
WRoundPack(sg, w, E, sticky) ==
  With([L \in {IF w[1] = 0 THEN 0 ELSE BitLen(w[1]) + 24} |->
  With([k \in {IF L > 30 THEN L - 30 ELSE 0} |->
  With([n \in {WShr(w, k)} |->
  RoundPack(sg, n[1] * Two24 + n[2], E + k, sticky \/ n[3])])])])

(***************************************************************************)
(* arithmetic on binary32 images                                           *)
(***************************************************************************)
FNeg(a) == F32(1 - a.sign, a.exp, a.frac)

FMul(a, b) ==
  IF IsNaN(a) \/ IsNaN(b) THEN DefaultNaN
  ELSE IF IsInf(a) \/ IsInf(b)
    THEN IF IsZero(a) \/ IsZero(b) THEN DefaultNaN ELSE Infinity((a.sign + b.sign) % 2)
  ELSE IF IsZero(a) \/ IsZero(b) THEN F32((a.sign + b.sign) % 2, 0, 0)
  ELSE WRoundPack((a.sign + b.sign) % 2, WMul(Mant(a), Mant(b)), Expo(a) + Expo(b), FALSE)

\* sa*x*2^E + sb*(y + e)*2^E for wide x > y (or x >= y when not sticky), rounded once.
WSum(sa, x, sb, y, E, sticky) ==
  IF sa = sb THEN WRoundPack(sa, WAdd(x, y), E, sticky)
  ELSE IF x = y /\ ~sticky THEN PosZero
  ELSE IF sticky THEN WRoundPack(sa, WSub(WSub(x, y), <<0, 1>>), E, TRUE)
  ELSE WRoundPack(sa, WSub(x, y), E, FALSE)

\* sp*p*2^ep + sc*c*2^ec rounded once, for wide p in [2^46, 2^48) or p = 0 and a
\* mantissa c in [2^23, 2^24) or c = 0, not both zero.
FSum(sp, p, ep, sc, c, ec) ==
  With([top \in {IF p = <<0, 0>> THEN ec + 24 ELSE IF c = 0 THEN ep + 48
      ELSE IF ep + 48 > ec + 24 THEN ep + 48 ELSE ec + 24} |->
  With([base \in {top - 53} |->
  With([xp \in {IF p = <<0, 0>> THEN <<0, 0, FALSE>>
      ELSE IF ep - base >= 0 THEN WShl(p, ep - base) \o <<FALSE>>
      ELSE WShr(p, base - ep)} |->
  With([xc \in {IF c = 0 THEN <<0, 0, FALSE>>
      ELSE IF ec - base >= 0 THEN WShl(<<0, c>>, ec - base) \o <<FALSE>>
      ELSE WShr(<<0, c>>, base - ec)} |->
  With([P \in {<<xp[1], xp[2]>>} |->
  With([C \in {<<xc[1], xc[2]>>} |->
  IF xp[3] \/ (~xc[3] /\ WLess(P, C))
    THEN WSum(sc, C, sp, P, base, xp[3])
    ELSE WSum(sp, P, sc, C, base, xc[3])
  ])])])])])])

FAdd(a, b) ==
  IF IsNaN(a) \/ IsNaN(b) THEN DefaultNaN
  ELSE IF IsInf(a)
    THEN IF IsInf(b) /\ a.sign # b.sign THEN DefaultNaN ELSE a
  ELSE IF IsInf(b) THEN b
  ELSE IF IsZero(a) /\ IsZero(b)
    THEN IF a.sign = 1 /\ b.sign = 1 THEN a ELSE PosZero
  ELSE IF IsZero(b) THEN a
  ELSE IF IsZero(a) THEN b
  ELSE FSum(a.sign, WShl(<<0, Mant(a)>>, 24), Expo(a) - 24, b.sign, Mant(b), Expo(b))

FSub(a, b) == IF IsNaN(b) THEN DefaultNaN ELSE FAdd(a, FNeg(b))

\* sp*(a*b) + c with a single rounding (fused multiply-add).
FFma(sp, a, b, c) ==
  With([sg \in {(sp + a.sign + b.sign) % 2} |->
  IF IsNaN(a) \/ IsNaN(b) \/ IsNaN(c) THEN DefaultNaN
  ELSE IF IsInf(a) \/ IsInf(b)
    THEN IF IsZero(a) \/ IsZero(b) THEN DefaultNaN
         ELSE IF IsInf(c) /\ c.sign # sg THEN DefaultNaN ELSE Infinity(sg)
  ELSE IF IsInf(c) THEN c
  ELSE IF IsZero(a) \/ IsZero(b)
    THEN IF IsZero(c) THEN (IF c.sign = 1 /\ sg = 1 THEN c ELSE PosZero) ELSE c
  ELSE FSum(sg, WMul(Mant(a), Mant(b)), Expo(a) + Expo(b),
            c.sign, IF IsZero(c) THEN 0 ELSE Mant(c), Expo(c))])

RECURSIVE DivDigits(_, _, _, _)
\* n further quotient bits of rem / d (rem < d), appended to q: <<quotient, remainder>>.
DivDigits(q, rem, d, n) ==
  IF n = 0 THEN <<q, rem>>
  ELSE IF 2 * rem >= d THEN DivDigits(2 * q + 1, 2 * rem - d, d, n - 1)
  ELSE DivDigits(2 * q, 2 * rem, d, n - 1)

FDiv(a, b) ==
  IF IsNaN(a) \/ IsNaN(b) THEN DefaultNaN
  ELSE IF IsInf(a) THEN (IF IsInf(b) THEN DefaultNaN ELSE Infinity((a.sign + b.sign) % 2))
  ELSE IF IsInf(b) THEN F32((a.sign + b.sign) % 2, 0, 0)
  ELSE IF IsZero(b)
    THEN (IF IsZero(a) THEN DefaultNaN ELSE Infinity((a.sign + b.sign) % 2))
  ELSE IF IsZero(a) THEN F32((a.sign + b.sign) % 2, 0, 0)
  ELSE
    With([ma \in {Mant(a)} |->
    With([mb \in {Mant(b)} |->
    With([q0 \in {IF ma >= mb THEN 1 ELSE 0} |->
    With([qr \in {DivDigits(q0, ma - q0 * mb, mb, 26)} |->
    RoundPack((a.sign + b.sign) % 2, qr[1], Expo(a) - Expo(b) - 26, qr[2] # 0)])])])])

RECURSIVE SqrtDigits(_, _, _, _, _)
\* Digit-by-digit square root: the radicand is the n top bit pairs of hi (a 26-bit
\* number) followed by z zero pairs; <<root, remainder>>.
SqrtDigits(root, rem, hi, n, z) ==
  IF n = 0 /\ z = 0 THEN <<root, rem>>
  ELSE
    With([r4 \in {4 * rem + (IF n > 0 THEN (hi \div Pow2(2 * (n - 1))) % 4 ELSE 0)} |->
    With([n1 \in {IF n > 0 THEN n - 1 ELSE 0} |->
    With([z1 \in {IF n > 0 THEN z ELSE z - 1} |->
    IF r4 >= 4 * root + 1
      THEN SqrtDigits(2 * root + 1, r4 - (4 * root + 1), hi, n1, z1)
      ELSE SqrtDigits(2 * root, r4, hi, n1, z1)])])])

FSqrt(a) ==
  IF IsNaN(a) THEN DefaultNaN
  ELSE IF IsZero(a) THEN a
  ELSE IF a.sign = 1 THEN DefaultNaN
  ELSE IF IsInf(a) THEN a
  ELSE
    With([e0 \in {Expo(a)} |->
    With([m \in {IF e0 % 2 = 1 THEN 2 * Mant(a) ELSE Mant(a)} |->
    With([e \in {IF e0 % 2 = 1 THEN e0 - 1 ELSE e0} |->
    With([rr \in {SqrtDigits(0, 0, m, 13, 14)} |->
    RoundPack(0, rr[1], (e \div 2) - 14, rr[2] # 0)])])])])

\* _mm_floor_ps: the largest integral value not above a.
FFloor(a) ==
  IF ~IsFinite(a) \/ IsZero(a) \/ RawExpo(a) >= 0 THEN a
  ELSE
    With([m \in {RawMant(a)} |->
    With([k \in {0 - RawExpo(a)} |->
    With([ip \in {IF k >= 24 THEN 0 ELSE m \div Pow2(k)} |->
    With([fr \in {IF k >= 24 THEN m ELSE m % Pow2(k)} |->
    IF a.sign = 0 THEN RoundPack(0, ip, 0, FALSE)
    ELSE IF fr = 0 THEN RoundPack(1, ip, 0, FALSE)
    ELSE RoundPack(1, ip + 1, 0, FALSE)])])])])

\* cvtps2dq: round to nearest even; NaN and values outside int32 give the integer
\* indefinite 0x80000000.
FToInt32(a) ==
  IF ~IsFinite(a) THEN MinInt32
  ELSE IF IsZero(a) THEN 0
  ELSE IF RawExpo(a) > 7 THEN MinInt32
  ELSE
    With([m \in {RawMant(a)} |->
    With([e \in {RawExpo(a)} |->
    With([k \in {0 - e} |->
    With([q \in {IF k >= 25 THEN 0 ELSE IF k >= 0 THEN m \div Pow2(k) ELSE 0} |->
    With([rm \in {IF k >= 25 THEN 1 ELSE IF k >= 0 THEN m % Pow2(k) ELSE 0} |->
    With([hf \in {IF k >= 25 THEN 2 ELSE IF k >= 1 THEN Pow2(k - 1) ELSE 0} |->
    With([n \in {IF e >= 0 THEN m * Pow2(e)
        ELSE IF rm > hf \/ (rm = hf /\ q % 2 = 1) THEN q + 1 ELSE q} |->
    IF a.sign = 1 THEN 0 - n ELSE n])])])])])])])

\* cvtdq2ps: the binary32 nearest to an int32.
Int32ToF(n) ==
  IF n = MinInt32 THEN F32(1, 158, 0)
  ELSE IF n < 0 THEN RoundPack(1, 0 - n, 0, FALSE)
  ELSE RoundPack(0, n, 0, FALSE)

\* Ordered comparison of two non-NaN images, -0 = +0.
FLess(a, b) ==
  With([ka \in {a.exp * Two23 + a.frac} |->
  With([kb \in {b.exp * Two23 + b.frac} |->
  IF a.sign = 1 /\ b.sign = 0 THEN ka # 0 \/ kb # 0
  ELSE IF a.sign = 0 /\ b.sign = 1 THEN FALSE
  ELSE IF a.sign = 0 THEN ka < kb
  ELSE kb < ka])])

FEqual(a, b) == a = b \/ (IsZero(a) /\ IsZero(b))

Mask(cond) == IF cond THEN AllOnes ELSE PosZero

RECURSIVE BitAnd(_, _, _)
\* Bitwise AND of the low n bits of two naturals.
BitAnd(x, y, n) ==
  IF n = 0 \/ x = 0 \/ y = 0 THEN 0
  ELSE (x % 2) * (y % 2) + 2 * BitAnd(x \div 2, y \div 2, n - 1)

\* Low three bits of the two's-complement AND of int32 n with a mask k in 0..7.
AndLow(n, k) == BitAnd(n % 8, k, 3)

(***************************************************************************)
(* the intrinsics, one lane at a time                                      *)
(***************************************************************************)
mul_ps(a, b)  == FMul(a, b)
add_ps(a, b)  == FAdd(a, b)
sub_ps(a, b)  == FSub(a, b)
div_ps(a, b)  == FDiv(a, b)
sqrt_ps(a)    == FSqrt(a)
floor_ps(a)   == FFloor(a)
fmadd_ps(a, b, c)  == FFma(0, a, b, c)            \* a*b + c
fmsub_ps(a, b, c)  == FFma(0, a, b, FNeg(c))      \* a*b - c
fnmadd_ps(a, b, c) == FFma(1, a, b, c)            \* -(a*b) + c
and_ps(a, b)  == F32(a.sign * b.sign, BitAnd(a.exp, b.exp, 8), BitAnd(a.frac, b.frac, 23))

\* cmpltps: ordered less-than, false when either operand is a NaN.
cmplt_ps(a, b)  == Mask(~IsNaN(a) /\ ~IsNaN(b) /\ FLess(a, b))
\* cmpneqps: not-equal, TRUE when either operand is a NaN (unordered).
cmpneq_ps(a, b) == Mask(IsNaN(a) \/ IsNaN(b) \/ ~FEqual(a, b))
\* _mm256_cmp_ps with immediate 1 (_CMP_LT_OS) or 4 (_CMP_NEQ_UQ).
cmp_ps(a, b, imm) == IF imm = 1 THEN cmplt_ps(a, b) ELSE cmpneq_ps(a, b)

cvtps_epi32(a) == FToInt32(a)
cvtepi32_ps(n) == Int32ToF(n)
\* paddd: 32-bit two's-complement addition of b in 0..7.
add_epi32(a, b) == IF a > MaxInt32 - b THEN MinInt32 + (b - (MaxInt32 - a) - 1) ELSE a + b
\* pand with a constant b in 0..7.
and_si(a, b) == AndLow(a, b)

(***************************************************************************)
(* the constants every kernel sets before its loop                         *)
(***************************************************************************)
\* A variant of m4pi: the count taken in radians instead of eighths of a turn.
m4pi_unit == F32(0, 127, 0)

m4pi    == F32(0, 127, 2292099)     \* 1.273239545  = 0x3FA2F983
pio4A   == F32(0, 126, 4784128)     \* 0.78515625   = 0x3F490000
pio4B   == F32(0, 114, 8232984)     \* 0.241876e-3  = 0x397DA018
ffours  == F32(0, 129, 0)           \* 4.0
ftwos   == F32(0, 128, 0)           \* 2.0
fones   == F32(0, 127, 0)           \* 1.0
fzeroes == F32(0, 0, 0)             \* _mm_setzero_ps()
ones    == 1
twos    == 2
fours   == 4
cp1     == F32(0, 127, 0)           \* 1.0
cp2     == F32(0, 123, 2796203)     \* 0.83333333e-1 = 0x3DAAAAAB
cp3     == F32(0, 118, 3541858)     \* 0.2777778e-2  = 0x3B360B62
cp4     == F32(0, 112, 5246161)     \* 0.49603e-4    = 0x38500CD1
cp5     == F32(0, 106, 1304687)     \* 0.551e-6      = 0x3513E86F

(***************************************************************************)
(* the loop bodies of the six vector kernels, one lane at a time.  A body   *)
(* is its assignments in the order of the source: statement i of a body,    *)
(* met with the register file rf, is <<register, value assigned>>, and     *)
(* <<>> after the last one.                                                 *)
(***************************************************************************)
set1_ps_8_0  == F32(0, 130, 0)      \* _mm_set1_ps(8.0)
set1_ps_2_0f == F32(0, 128, 0)      \* _mm_set1_ps(2.0f)

\* The loop body of volk_32f_sin_32f_a_avx2_fma after its load (lines 116-142).
a_avx2_fma_body(i, rf) ==
  CASE i = 1 -> <<"s", sub_ps(rf.aVal, and_ps(mul_ps(rf.aVal, ftwos), cmp_ps(rf.aVal, fzeroes, 1)))>>
    [] i = 2 -> <<"q", cvtps_epi32(floor_ps(mul_ps(rf.s, m4pi)))>>
    [] i = 3 -> <<"r", add_epi32(rf.q, and_si(rf.q, ones))>>
    [] i = 4 -> <<"s", fnmadd_ps(cvtepi32_ps(rf.r), pio4A, rf.s)>>
    [] i = 5 -> <<"s", fnmadd_ps(cvtepi32_ps(rf.r), pio4B, rf.s)>>
    [] i = 6 -> <<"s", div_ps(rf.s, set1_ps_8_0)>>
    [] i = 7 -> <<"s", mul_ps(rf.s, rf.s)>>
    [] i = 8 -> <<"s", mul_ps(fmadd_ps(fmsub_ps(fmadd_ps(fmsub_ps(rf.s, cp5, cp4), rf.s, cp3), rf.s, cp2),
                                  rf.s, cp1), rf.s)>>
    [] i \in 9..11 -> <<"s", mul_ps(rf.s, sub_ps(ffours, rf.s))>>     \* for(i = 0; i < 3; i++)
    [] i = 12 -> <<"s", div_ps(rf.s, ftwos)>>
    [] i = 13 -> <<"sine", sqrt_ps(mul_ps(sub_ps(ftwos, rf.s), rf.s))>>
    [] i = 14 -> <<"cosine", sub_ps(fones, rf.s)>>
    [] i = 15 -> <<"condition1",
                   cmp_ps(cvtepi32_ps(and_si(add_epi32(rf.q, ones), twos)), fzeroes, 4)>>
    [] i = 16 -> <<"condition2",
                   cmp_ps(cmp_ps(cvtepi32_ps(and_si(rf.q, fours)), fzeroes, 4), cmp_ps(rf.aVal, fzeroes, 1), 4)>>
    [] i = 17 -> <<"sine", add_ps(rf.sine, and_ps(sub_ps(rf.cosine, rf.sine), rf.condition1))>>
    [] i = 18 -> <<"sine", sub_ps(rf.sine, and_ps(mul_ps(rf.sine, set1_ps_2_0f), rf.condition2))>>
    [] OTHER -> <<>>

\* The loop body of volk_32f_sin_32f_a_avx2 after its load (lines 192-218).
a_avx2_body(i, rf) ==
  CASE i = 1 -> <<"s", sub_ps(rf.aVal, and_ps(mul_ps(rf.aVal, ftwos), cmp_ps(rf.aVal, fzeroes, 1)))>>
    [] i = 2 -> <<"q", cvtps_epi32(floor_ps(mul_ps(rf.s, m4pi)))>>
    [] i = 3 -> <<"r", add_epi32(rf.q, and_si(rf.q, ones))>>
    [] i = 4 -> <<"s", sub_ps(rf.s, mul_ps(cvtepi32_ps(rf.r), pio4A))>>
    [] i = 5 -> <<"s", sub_ps(rf.s, mul_ps(cvtepi32_ps(rf.r), pio4B))>>
    [] i = 6 -> <<"s", div_ps(rf.s, set1_ps_8_0)>>
    [] i = 7 -> <<"s", mul_ps(rf.s, rf.s)>>
    [] i = 8 -> <<"s", mul_ps(add_ps(mul_ps(sub_ps(mul_ps(add_ps(mul_ps(sub_ps(mul_ps(rf.s, cp5), cp4),
                   rf.s), cp3), rf.s), cp2), rf.s), cp1), rf.s)>>
    [] i \in 9..11 -> <<"s", mul_ps(rf.s, sub_ps(ffours, rf.s))>>     \* for(i = 0; i < 3; i++)
    [] i = 12 -> <<"s", div_ps(rf.s, ftwos)>>
    [] i = 13 -> <<"sine", sqrt_ps(mul_ps(sub_ps(ftwos, rf.s), rf.s))>>
    [] i = 14 -> <<"cosine", sub_ps(fones, rf.s)>>
    [] i = 15 -> <<"condition1",
                   cmp_ps(cvtepi32_ps(and_si(add_epi32(rf.q, ones), twos)), fzeroes, 4)>>
    [] i = 16 -> <<"condition2",
                   cmp_ps(cmp_ps(cvtepi32_ps(and_si(rf.q, fours)), fzeroes, 4), cmp_ps(rf.aVal, fzeroes, 1), 4)>>
    [] i = 17 -> <<"sine", add_ps(rf.sine, and_ps(sub_ps(rf.cosine, rf.sine), rf.condition1))>>
    [] i = 18 -> <<"sine", sub_ps(rf.sine, and_ps(mul_ps(rf.sine, set1_ps_2_0f), rf.condition2))>>
    [] OTHER -> <<>>

\* The loop body of volk_32f_sin_32f_a_sse4_1 after its load (lines 268-294).
a_sse4_1_body(i, rf) ==
  CASE i = 1 -> <<"s", sub_ps(rf.aVal, and_ps(mul_ps(rf.aVal, ftwos), cmplt_ps(rf.aVal, fzeroes)))>>
    [] i = 2 -> <<"q", cvtps_epi32(floor_ps(mul_ps(rf.s, m4pi)))>>
    [] i = 3 -> <<"r", add_epi32(rf.q, and_si(rf.q, ones))>>
    [] i = 4 -> <<"s", sub_ps(rf.s, mul_ps(cvtepi32_ps(rf.r), pio4A))>>
    [] i = 5 -> <<"s", sub_ps(rf.s, mul_ps(cvtepi32_ps(rf.r), pio4B))>>
    [] i = 6 -> <<"s", div_ps(rf.s, set1_ps_8_0)>>
    [] i = 7 -> <<"s", mul_ps(rf.s, rf.s)>>
    [] i = 8 -> <<"s", mul_ps(add_ps(mul_ps(sub_ps(mul_ps(add_ps(mul_ps(sub_ps(mul_ps(rf.s, cp5), cp4),
                   rf.s), cp3), rf.s), cp2), rf.s), cp1), rf.s)>>
    [] i \in 9..11 -> <<"s", mul_ps(rf.s, sub_ps(ffours, rf.s))>>     \* for(i = 0; i < 3; i++)
    [] i = 12 -> <<"s", div_ps(rf.s, ftwos)>>
    [] i = 13 -> <<"sine", sqrt_ps(mul_ps(sub_ps(ftwos, rf.s), rf.s))>>
    [] i = 14 -> <<"cosine", sub_ps(fones, rf.s)>>
    [] i = 15 -> <<"condition1",
                   cmpneq_ps(cvtepi32_ps(and_si(add_epi32(rf.q, ones), twos)), fzeroes)>>
    [] i = 16 -> <<"condition2",
                   cmpneq_ps(cmpneq_ps(cvtepi32_ps(and_si(rf.q, fours)), fzeroes), cmplt_ps(rf.aVal, fzeroes))>>
    [] i = 17 -> <<"sine", add_ps(rf.sine, and_ps(sub_ps(rf.cosine, rf.sine), rf.condition1))>>
    [] i = 18 -> <<"sine", sub_ps(rf.sine, and_ps(mul_ps(rf.sine, set1_ps_2_0f), rf.condition2))>>
    [] OTHER -> <<>>

\* The loop body of volk_32f_sin_32f_u_avx2_fma after its load (lines 350-376).
u_avx2_fma_body(i, rf) ==
  CASE i = 1 -> <<"s", sub_ps(rf.aVal, and_ps(mul_ps(rf.aVal, ftwos), cmp_ps(rf.aVal, fzeroes, 1)))>>
    [] i = 2 -> <<"q", cvtps_epi32(floor_ps(mul_ps(rf.s, m4pi)))>>
    [] i = 3 -> <<"r", add_epi32(rf.q, and_si(rf.q, ones))>>
    [] i = 4 -> <<"s", fnmadd_ps(cvtepi32_ps(rf.r), pio4A, rf.s)>>
    [] i = 5 -> <<"s", fnmadd_ps(cvtepi32_ps(rf.r), pio4B, rf.s)>>
    [] i = 6 -> <<"s", div_ps(rf.s, set1_ps_8_0)>>
    [] i = 7 -> <<"s", mul_ps(rf.s, rf.s)>>
    [] i = 8 -> <<"s", mul_ps(fmadd_ps(fmsub_ps(fmadd_ps(fmsub_ps(rf.s, cp5, cp4), rf.s, cp3), rf.s, cp2),
                                  rf.s, cp1), rf.s)>>
    [] i \in 9..11 -> <<"s", mul_ps(rf.s, sub_ps(ffours, rf.s))>>     \* for(i = 0; i < 3; i++)
    [] i = 12 -> <<"s", div_ps(rf.s, ftwos)>>
    [] i = 13 -> <<"sine", sqrt_ps(mul_ps(sub_ps(ftwos, rf.s), rf.s))>>
    [] i = 14 -> <<"cosine", sub_ps(fones, rf.s)>>
    [] i = 15 -> <<"condition1",
                   cmp_ps(cvtepi32_ps(and_si(add_epi32(rf.q, ones), twos)), fzeroes, 4)>>
    [] i = 16 -> <<"condition2",
                   cmp_ps(cmp_ps(cvtepi32_ps(and_si(rf.q, fours)), fzeroes, 4), cmp_ps(rf.aVal, fzeroes, 1), 4)>>
    [] i = 17 -> <<"sine", add_ps(rf.sine, and_ps(sub_ps(rf.cosine, rf.sine), rf.condition1))>>
    [] i = 18 -> <<"sine", sub_ps(rf.sine, and_ps(mul_ps(rf.sine, set1_ps_2_0f), rf.condition2))>>
    [] OTHER -> <<>>

\* The loop body of volk_32f_sin_32f_u_avx2 after its load (lines 426-452).
u_avx2_body(i, rf) ==
  CASE i = 1 -> <<"s", sub_ps(rf.aVal, and_ps(mul_ps(rf.aVal, ftwos), cmp_ps(rf.aVal, fzeroes, 1)))>>
    [] i = 2 -> <<"q", cvtps_epi32(floor_ps(mul_ps(rf.s, m4pi)))>>
    [] i = 3 -> <<"r", add_epi32(rf.q, and_si(rf.q, ones))>>
    [] i = 4 -> <<"s", sub_ps(rf.s, mul_ps(cvtepi32_ps(rf.r), pio4A))>>
    [] i = 5 -> <<"s", sub_ps(rf.s, mul_ps(cvtepi32_ps(rf.r), pio4B))>>
    [] i = 6 -> <<"s", div_ps(rf.s, set1_ps_8_0)>>
    [] i = 7 -> <<"s", mul_ps(rf.s, rf.s)>>
    [] i = 8 -> <<"s", mul_ps(add_ps(mul_ps(sub_ps(mul_ps(add_ps(mul_ps(sub_ps(mul_ps(rf.s, cp5), cp4),
                   rf.s), cp3), rf.s), cp2), rf.s), cp1), rf.s)>>
    [] i \in 9..11 -> <<"s", mul_ps(rf.s, sub_ps(ffours, rf.s))>>     \* for(i = 0; i < 3; i++)
    [] i = 12 -> <<"s", div_ps(rf.s, ftwos)>>
    [] i = 13 -> <<"sine", sqrt_ps(mul_ps(sub_ps(ftwos, rf.s), rf.s))>>
    [] i = 14 -> <<"cosine", sub_ps(fones, rf.s)>>
    [] i = 15 -> <<"condition1",
                   cmp_ps(cvtepi32_ps(and_si(add_epi32(rf.q, ones), twos)), fzeroes, 4)>>
    [] i = 16 -> <<"condition2",
                   cmp_ps(cmp_ps(cvtepi32_ps(and_si(rf.q, fours)), fzeroes, 4), cmp_ps(rf.aVal, fzeroes, 1), 4)>>
    [] i = 17 -> <<"sine", add_ps(rf.sine, and_ps(sub_ps(rf.cosine, rf.sine), rf.condition1))>>
    [] i = 18 -> <<"sine", sub_ps(rf.sine, and_ps(mul_ps(rf.sine, set1_ps_2_0f), rf.condition2))>>
    [] OTHER -> <<>>

\* A variant of the 4-lane body that scales the reduced angle by 4, not by 8.
sse4_1_body_scale4(i, rf) ==
  IF i = 6 THEN <<"s", div_ps(rf.s, ffours)>> ELSE a_sse4_1_body(i, rf)

\* The loop body of volk_32f_sin_32f_u_sse4_1 after its load (lines 503-527).
u_sse4_1_body(i, rf) ==
  CASE i = 1 -> <<"s", sub_ps(rf.aVal, and_ps(mul_ps(rf.aVal, ftwos), cmplt_ps(rf.aVal, fzeroes)))>>
    [] i = 2 -> <<"q", cvtps_epi32(floor_ps(mul_ps(rf.s, m4pi)))>>
    [] i = 3 -> <<"r", add_epi32(rf.q, and_si(rf.q, ones))>>
    [] i = 4 -> <<"s", sub_ps(rf.s, mul_ps(cvtepi32_ps(rf.r), pio4A))>>
    [] i = 5 -> <<"s", sub_ps(rf.s, mul_ps(cvtepi32_ps(rf.r), pio4B))>>
    [] i = 6 -> <<"s", div_ps(rf.s, set1_ps_8_0)>>
    [] i = 7 -> <<"s", mul_ps(rf.s, rf.s)>>
    [] i = 8 -> <<"s", mul_ps(add_ps(mul_ps(sub_ps(mul_ps(add_ps(mul_ps(sub_ps(mul_ps(rf.s, cp5), cp4),
                   rf.s), cp3), rf.s), cp2), rf.s), cp1), rf.s)>>
    [] i \in 9..11 -> <<"s", mul_ps(rf.s, sub_ps(ffours, rf.s))>>     \* for(i = 0; i < 3; i++)
    [] i = 12 -> <<"s", div_ps(rf.s, ftwos)>>
    [] i = 13 -> <<"sine", sqrt_ps(mul_ps(sub_ps(ftwos, rf.s), rf.s))>>
    [] i = 14 -> <<"cosine", sub_ps(fones, rf.s)>>
    [] i = 15 -> <<"condition1",
                   cmpneq_ps(cvtepi32_ps(and_si(add_epi32(rf.q, ones), twos)), fzeroes)>>
    [] i = 16 -> <<"condition2",
                   cmpneq_ps(cmpneq_ps(cvtepi32_ps(and_si(rf.q, fours)), fzeroes), cmplt_ps(rf.aVal, fzeroes))>>
    [] i = 17 -> <<"sine", add_ps(rf.sine, and_ps(sub_ps(rf.cosine, rf.sine), rf.condition1))>>
    [] i = 18 -> <<"sine", sub_ps(rf.sine, and_ps(mul_ps(rf.sine, set1_ps_2_0f), rf.condition2))>>
    [] OTHER -> <<>>

(***************************************************************************)
(* sin() of math.h, as the scalar loops call it: float -> double -> sin -> *)
(* float.  Tabulated for the magnitudes the model feeds the kernels; the   *)
(* library function is odd, sin(-x) = -sin(x).                             *)
(***************************************************************************)
SinTable == <<
  <<F32(0, 0, 0), F32(0, 0, 0)>>,                            \* sin(0.0) = 0
  <<F32(0, 125, 1677722), F32(0, 125, 1527405)>>,            \* sin(0.3) = 0.295520216
  <<F32(0, 126, 395922), F32(0, 126, 0)>>,                   \* sin(0.5235988) = 0.5
  <<F32(0, 126, 4788187), F32(0, 126, 3474675)>>,            \* sin(0.7853982) = 0.707106769
  <<F32(0, 127, 0), F32(0, 126, 5728932)>>,                  \* sin(1.0) = 0.841470957
  <<F32(0, 127, 395922), F32(0, 126, 6140888)>>,             \* sin(1.0471976) = 0.866025448
  <<F32(0, 127, 4788187), F32(0, 127, 0)>>,                  \* sin(1.5707964) = 1
  <<F32(0, 128, 0), F32(0, 126, 6866871)>>,                  \* sin(2.0) = 0.909297407
  <<F32(0, 128, 2097152), F32(0, 126, 1652088)>>,            \* sin(2.5) = 0.598472118
  <<F32(0, 128, 4194304), F32(0, 124, 1081795)>>,            \* sin(3.0) = 0.141120002
  <<F32(0, 128, 4788187), F32(1, 103, 3915054)>>,            \* sin(3.1415927) = -8.74227766e-08
  <<F32(0, 128, 6291456), F32(1, 125, 3381724)>>,            \* sin(3.5) = -0.350783229
  <<F32(0, 128, 8082385), F32(1, 126, 3474674)>>,            \* sin(3.92699075) = -0.707106709
  <<F32(0, 129, 0), F32(1, 126, 4308431)>>,                  \* sin(4.0) = -0.756802499
  <<F32(0, 129, 1493988), F32(1, 127, 0)>>,                  \* sin(4.712389) = -1
  <<F32(0, 129, 2097152), F32(1, 126, 7699472)>>,            \* sin(5.0) = -0.958924294
  <<F32(0, 129, 3145728), F32(1, 126, 3448394)>>,            \* sin(5.5) = -0.705540299
  <<F32(0, 129, 4194304), F32(1, 125, 987020)>>,             \* sin(6.0) = -0.279415488
  <<F32(0, 129, 4788187), F32(0, 104, 3915054)>>,            \* sin(6.2831855) = 1.74845553e-07
  <<F32(0, 129, 6291456), F32(0, 126, 2633798)>>,            \* sin(7.0) = 0.656986594
  <<F32(0, 130, 2097152), F32(1, 126, 738552)>>,             \* sin(10.0) = -0.54402113
  <<F32(0, 133, 4718592), F32(1, 126, 106798)>>,             \* sin(100.0) = -0.506365657
  <<F32(0, 135, 1441792), F32(1, 126, 8384512)>>,            \* sin(300.0) = -0.999755859
  <<F32(0, 136, 7995392), F32(0, 126, 5484129)>>             \* sin(1000.0) = 0.826879561
>>

Magnitudes == [i \in 1..Len(SinTable) |-> SinTable[i][1]]

FAbs(a) == F32(0, a.exp, a.frac)

sin(x) ==
  IF \E i \in 1..Len(SinTable) : SinTable[i][1] = FAbs(x)
    THEN LET i == CHOOSE i \in 1..Len(SinTable) : SinTable[i][1] = FAbs(x)
         IN  IF x.sign = 1 THEN FNeg(SinTable[i][2]) ELSE SinTable[i][2]
    ELSE DefaultNaN   \* outside the tabulated magnitudes

(***************************************************************************)
(* one call kernel(bVector, aVector, num_points)                           *)
(***************************************************************************)
AlignedKernels   == {"a_avx2_fma", "a_avx2", "a_sse4_1"}
UnalignedKernels == {"u_avx2_fma", "u_avx2", "u_sse4_1"}
VectorKernels    == AlignedKernels \cup UnalignedKernels
Kernels          == VectorKernels \cup {"generic"}

\* Lanes of one vector register: num_points / 8 groups for the __m256 kernels,
\* num_points / 4 for the __m128 kernels.
Width(k) == IF k \in {"a_sse4_1", "u_sse4_1"} THEN 4 ELSE 8

Statement(k, i, rf) ==
  CASE k = "a_avx2_fma" -> a_avx2_fma_body(i, rf)
    [] k = "a_avx2"     -> a_avx2_body(i, rf)
    [] k = "a_sse4_1"   -> a_sse4_1_body(i, rf)
    [] k = "u_avx2_fma" -> u_avx2_fma_body(i, rf)
    [] k = "u_avx2"     -> u_avx2_body(i, rf)
    [] k = "u_sse4_1"   -> u_sse4_1_body(i, rf)

\* rf after the assignment a = <<register, value>>; trace lists the values assigned.
Assign(rf, a) == [rf EXCEPT ![a[1]] = a[2], !.trace = Append(@, a[2])]

RECURSIVE Exec(_, _, _)
\* rf after the statements of body k from statement i on.
Exec(k, i, rf) ==
  With([a \in {Statement(k, i, rf)} |->
    IF a = <<>> THEN rf ELSE Exec(k, i + 1, Assign(rf, a))])

\* The registers of one lane: __m128 aVal, s, sine, cosine, condition1, condition2;
\* __m128i q, r; declared without a value, and aVal as the load leaves it.
Registers(x) ==
  [aVal |-> x, s |-> "indeterminate", q |-> "indeterminate", r |-> "indeterminate",
   sine |-> "indeterminate", cosine |-> "indeterminate",
   condition1 |-> "indeterminate", condition2 |-> "indeterminate", trace |-> <<>>]

\* One lane of one iteration of kernel k on the loaded value x.
LaneCompute(k, x) == Exec(k, 1, Registers(x))

\* Longest array of a call.
MaxPoints == 9

\* What the memory outside the input array holds before the call.
Garbage == SinTable[Len(SinTable)][1]

\* The angles of the input arrays: every tabulated magnitude but the last, with
\* both signs, the negative ones in reverse order.
NumAngles == Len(SinTable) - 1
AngleSeq  == [i \in 1..(2 * NumAngles) |->
                IF i <= NumAngles THEN Magnitudes[i]
                ELSE FNeg(Magnitudes[2 * NumAngles + 1 - i])]
Angles    == {AngleSeq[i] : i \in 1..Len(AngleSeq)}

\* Input arrays: AngleSeq read cyclically from `start`, one start per group of four.
Starts == {i \in 0..(Len(AngleSeq) - 1) : i % 4 = 0}
InputAt(start, i) == AngleSeq[((start + i) % Len(AngleSeq)) + 1]

\* The loop body of kernel k on every angle of AngleSeq, tabulated once (f @@ <<>>
\* is f, held as a table).
LaneMemo == [k \in VectorKernels |->
               ([x \in Angles \cup {Garbage} |-> LaneCompute(k, x)] @@ <<>>)] @@ <<>>
Lane(k, x) == IF x \in Angles \cup {Garbage} THEN LaneMemo[k][x] ELSE LaneCompute(k, x)

\* What kernel k leaves at index i of its output for the n floats at address a of
\* memory m0: the vector loop's lane for the indices of the full groups, the
\* scalar loop's sin() for the rest.
Output(k, m0, a, n, i) ==
  IF k \in VectorKernels /\ i < (n \div Width(k)) * Width(k)
    THEN Lane(k, m0[a + i]).sine
    ELSE sin(m0[a + i])

\* Memory is an array of floats; an address counts floats.
BufferStride == 8 * ((MaxPoints + 8) \div 8)
Addresses    == 0..(2 * BufferStride + 7)

VARIABLES
  kernel,       \* the entry point called
  num_points,   \* its third argument
  aVector,      \* address of the input array
  bVector,      \* address of the output array
  mem,          \* memory
  aPtr, bPtr,   \* the kernel's two cursors
  number,       \* the kernel's loop counter
  pc,           \* "vloop", "vbody", "sloop", "done"
  aVal,         \* the vector register loaded last
  regs,         \* the other vector registers after the last iteration, per lane
  mem0,         \* memory at the call (history)
  hist          \* the loads and stores so far, in order (history)

vars == <<kernel, num_points, aVector, bVector, mem, aPtr, bPtr, number, pc,
          aVal, regs, mem0, hist>>

\* Variants of the group count: rounded up, and one group too many.
GroupPoints_ceil == (num_points + Width(kernel) - 1) \div Width(kernel)
GroupPoints_more == num_points \div Width(kernel) + 1

\* unsigned int eighthPoints = num_points / 8 (quarterPoints = num_points / 4)
GroupPoints == num_points \div Width(kernel)

\* _mm_load_ps / _mm256_load_ps: w consecutive floats from an address that is a
\* multiple of w (a misaligned address raises a general-protection fault).
load_ps(m, p, w)  == [l \in 1..w |-> IF p % w = 0 THEN m[p + l - 1] ELSE "fault"]
\* _mm_loadu_ps / _mm256_loadu_ps: w consecutive floats from any address.
loadu_ps(m, p, w) == [l \in 1..w |-> m[p + l - 1]]
\* _mm_store_ps / _mm256_store_ps
store_ps(m, p, v)  == [a \in DOMAIN m |->
                        IF a \in p..(p + Len(v) - 1)
                          THEN (IF p % Len(v) = 0 THEN v[a - p + 1] ELSE "fault")
                          ELSE m[a]]
\* _mm_storeu_ps / _mm256_storeu_ps
storeu_ps(m, p, v) == [a \in DOMAIN m |->
                        IF a \in p..(p + Len(v) - 1) THEN v[a - p + 1] ELSE m[a]]

Load(k, m, p)     == IF k \in AlignedKernels THEN load_ps(m, p, Width(k))
                     ELSE loadu_ps(m, p, Width(k))
Store(k, m, p, v) == IF k \in AlignedKernels THEN store_ps(m, p, v)
                     ELSE storeu_ps(m, p, v)

\* The accesses of one instruction: <<"load" or "store", address, "vector" or "scalar">>.
Accesses(kind, p, w, path) == [l \in 1..w |-> <<kind, p + l - 1, path>>]

\* The state at the kernel's first loop test.  The aligned entry points are called
\* with buffers on a vector boundary; the others with any buffers.  The output
\* buffer is the input buffer itself or a buffer apart from it.
Init ==
  \E k \in Kernels, n \in 0..MaxPoints, start \in Starts, off \in {0, 1},
     inPlace \in BOOLEAN :
    /\ k \in AlignedKernels => off = 0
    /\ kernel = k
    /\ num_points = n
    /\ aVector = off
    /\ bVector = IF inPlace THEN off ELSE BufferStride + off
    /\ mem = [a \in Addresses |->
                IF a \in off..(off + n - 1) THEN InputAt(start, a - off)
                ELSE Garbage]
    /\ mem0 = mem
    /\ aPtr = aVector
    /\ bPtr = bVector
    /\ number = 0
    /\ pc = IF k \in VectorKernels THEN "vloop" ELSE "sloop"
    /\ aVal = <<>>
    /\ regs = <<>>
    /\ hist = <<>>

\* for(;number < eighthPoints; number++) { aVal = _mm256_load_ps(aPtr); ...
VecLoad ==
  /\ pc = "vloop"
  /\ number < GroupPoints
  /\ aVal' = Load(kernel, mem, aPtr)
  /\ hist' = hist \o Accesses("load", aPtr, Width(kernel), "vector")
  /\ pc' = "vbody"
  /\ UNCHANGED <<kernel, num_points, aVector, bVector, mem, aPtr, bPtr, number,
                 regs, mem0>>

\* A variant of the iteration whose input cursor advances one float short of a
\* group, so that consecutive groups overlap.
VecStore_overlap ==
  /\ pc = "vbody"
  /\ regs' = [l \in 1..Width(kernel) |-> Lane(kernel, aVal[l])]
  /\ mem' = Store(kernel, mem, bPtr, [l \in 1..Width(kernel) |-> regs'[l].sine])
  /\ hist' = hist \o Accesses("store", bPtr, Width(kernel), "vector")
  /\ aPtr' = aPtr + Width(kernel) - 1
  /\ bPtr' = bPtr + Width(kernel)
  /\ number' = number + 1
  /\ pc' = "vloop"
  /\ UNCHANGED <<kernel, num_points, aVector, bVector, aVal, mem0>>

\* ... the arithmetic; store(bPtr, sine); aPtr += W; bPtr += W; }
VecStore ==
  /\ pc = "vbody"
  /\ regs' = [l \in 1..Width(kernel) |-> Lane(kernel, aVal[l])]
  /\ mem' = Store(kernel, mem, bPtr, [l \in 1..Width(kernel) |-> regs'[l].sine])
  /\ hist' = hist \o Accesses("store", bPtr, Width(kernel), "vector")
  /\ aPtr' = aPtr + Width(kernel)
  /\ bPtr' = bPtr + Width(kernel)
  /\ number' = number + 1
  /\ pc' = "vloop"
  /\ UNCHANGED <<kernel, num_points, aVector, bVector, aVal, mem0>>

\* number = eighthPoints * 8;
VecExit ==
  /\ pc = "vloop"
  /\ ~(number < GroupPoints)
  /\ number' = GroupPoints * Width(kernel)
  /\ pc' = "sloop"
  /\ UNCHANGED <<kernel, num_points, aVector, bVector, mem, aPtr, bPtr, aVal,
                 regs, mem0, hist>>

\* A variant of the remainder loop that runs the vector kernel's own lane
\* arithmetic on each trailing element.
ScalarStep_lane ==
  /\ pc = "sloop"
  /\ number < num_points
  /\ mem' = [mem EXCEPT ![bPtr] = IF kernel \in VectorKernels
                                    THEN Lane(kernel, mem[aPtr]).sine
                                    ELSE sin(mem[aPtr])]
  /\ hist' = hist \o Accesses("load", aPtr, 1, "scalar") \o Accesses("store", bPtr, 1, "scalar")
  /\ aPtr' = aPtr + 1
  /\ bPtr' = bPtr + 1
  /\ number' = number + 1
  /\ UNCHANGED <<kernel, num_points, aVector, bVector, pc, aVal, regs, mem0>>

\* for(;number < num_points; number++) { *bPtr++ = sin(*aPtr++); }
ScalarStep ==
  /\ pc = "sloop"
  /\ number < num_points
  /\ mem' = [mem EXCEPT ![bPtr] = sin(mem[aPtr])]
  /\ hist' = hist \o Accesses("load", aPtr, 1, "scalar") \o Accesses("store", bPtr, 1, "scalar")
  /\ aPtr' = aPtr + 1
  /\ bPtr' = bPtr + 1
  /\ number' = number + 1
  /\ UNCHANGED <<kernel, num_points, aVector, bVector, pc, aVal, regs, mem0>>

Return ==
  /\ pc = "sloop"
  /\ ~(number < num_points)
  /\ pc' = "done"
  /\ UNCHANGED <<kernel, num_points, aVector, bVector, mem, aPtr, bPtr, number,
                 aVal, regs, mem0, hist>>

Next == VecLoad \/ VecStore \/ VecExit \/ ScalarStep \/ Return

Spec == Init /\ [][Next]_vars

\* The call runs on its caller's thread without suspension: a step that can be
\* taken is taken.
FairSpec == Spec /\ WF_vars(Next)

(***************************************************************************)
(* notions the properties below are stated with                            *)
(***************************************************************************)
Eps        == F32(0, 110, 2606508)     \* 1e-5
FewHundred == F32(0, 135, 1441792)     \* 300.0

Ulp        == F32(0, 104, 0)           \* 2^-23, the spacing of the floats at 1.0

\* |a - b| <= Eps
Close(a, b) == ~IsNaN(a) /\ ~IsNaN(b) /\ ~FLess(Eps, FAbs(FSub(a, b)))
\* |a - b| <= Ulp
Near(a, b) == ~IsNaN(a) /\ ~IsNaN(b) /\ ~FLess(Ulp, FAbs(FSub(a, b)))

\* Bit b of the natural n is set.
Bit(n, b) == (n \div Pow2(b)) % 2 = 1

\* Elements the vector loop of the running kernel handles.
VectorPoints == IF kernel \in VectorKernels THEN GroupPoints * Width(kernel) ELSE 0

\* The index an access of the history touches in its array.
Index(h) == IF h[1] = "load" THEN h[2] - aVector ELSE h[2] - bVector

\* The entry point of the same kernel for the other alignment.
Counterpart(k) ==
  CASE k = "a_avx2_fma" -> "u_avx2_fma"
    [] k = "a_avx2"     -> "u_avx2"
    [] k = "a_sse4_1"   -> "u_sse4_1"
    [] k = "u_avx2_fma" -> "a_avx2_fma"
    [] k = "u_avx2"     -> "a_avx2"
    [] k = "u_sse4_1"   -> "a_sse4_1"

\* Kernel k may be called on the buffers of this call.
Callable(k) ==
  k \in AlignedKernels => aVector % Width(k) = 0 /\ bVector % Width(k) = 0

(***************************************************************************)
(* C1                                                                      *)
(***************************************************************************)
\* C1: the value a vector kernel stores for a lane holding x, |x| <= 300, is
\* within Eps of the scalar kernel's sin(x), and has the sign of sin(x) whenever
\* |sin(x)| > Eps.  (Eps is 1e-5, above the claim's 1e-6: a lane that misses it
\* misses the claim's bound too.)
C1_VectorMatchesScalar ==
  \A l \in DOMAIN regs :
    ~FLess(FewHundred, FAbs(regs[l].aVal)) =>
      /\ Close(regs[l].sine, sin(regs[l].aVal))
      /\ FLess(Eps, FAbs(sin(regs[l].aVal))) =>
           regs[l].sine.sign = sin(regs[l].aVal).sign

(***************************************************************************)
(* C2                                                                      *)
(***************************************************************************)
C2_InBounds ==
  \A j \in 1..Len(hist) : Index(hist[j]) \in 0..(num_points - 1)

C2_Covered ==
  pc = "done" =>
    \A i \in 0..(num_points - 1) :
      /\ Cardinality({j \in 1..Len(hist) : hist[j][1] = "store" /\ Index(hist[j]) = i}) = 1
      /\ \A j \in 1..Len(hist) :
           hist[j][1] = "store" /\ Index(hist[j]) = i =>
             hist[j][3] = (IF i < VectorPoints THEN "vector" ELSE "scalar")

\* C2: every call terminates; when it has, every output index 0..n-1 has been
\* stored exactly once, by the vector loop for the indices below floor(n/W)*W and
\* by the scalar loop for the rest; no index >= n is ever loaded or stored.
C2_TerminatesCovered == [](C2_InBounds /\ C2_Covered) /\ <>(pc = "done")

C2_Witness ==
  pc = "done" /\ kernel = "a_sse4_1" /\ num_points = 6 /\ Len(hist) = 12

(***************************************************************************)
(* C3                                                                      *)
(***************************************************************************)
\* C3: a vector kernel runs its vector algorithm on exactly the first
\* floor(n/W)*W elements, and leaves at every later index what the generic kernel
\* leaves there; with n < W that is the whole output.
C3_RemainderIsGeneric ==
  kernel \in VectorKernels =>
    /\ \A j \in 1..Len(hist) : hist[j][3] = "vector" <=> Index(hist[j]) < VectorPoints
    /\ pc = "done" =>
         \A i \in VectorPoints..(num_points - 1) :
           mem[bVector + i] = Output("generic", mem0, aVector, num_points, i)

C3_Witness ==
  /\ pc = "done" /\ kernel = "a_avx2" /\ num_points = 9
  /\ mem[bVector + 8] = sin(mem0[aVector + 8])

(***************************************************************************)
(* C4                                                                      *)
(***************************************************************************)
\* C4: a call with num_points = 0 loads nothing and stores nothing, leaves memory
\* as it found it, and returns.
C4_ZeroLength ==
  /\ [](num_points = 0 => hist = <<>> /\ mem = mem0)
  /\ (num_points = 0 ~> pc = "done")

C4_Witness ==
  pc = "done" /\ num_points = 0 /\ kernel = "a_avx2_fma" /\ mem = mem0

(***************************************************************************)
(* C5                                                                      *)
(***************************************************************************)
\* C5: for every x a vector lane holds, the lane's result for -x is within Eps of
\* the negation of its result for x.
C5_OddSymmetry ==
  \A l \in DOMAIN regs :
    regs[l].aVal \in Angles =>
      Close(Lane(kernel, FNeg(regs[l].aVal)).sine, FNeg(regs[l].sine))

(***************************************************************************)
(* C6                                                                      *)
(***************************************************************************)
\* C6: at every index, what the called kernel leaves is within Eps of what every
\* other kernel leaves there for the same input array and length.
C6_CrossVariant ==
  pc = "done" =>
    \A k \in Kernels :
      Callable(k) =>
        \A i \in 0..(num_points - 1) :
          Close(mem[bVector + i], Output(k, mem0, aVector, num_points, i))

(***************************************************************************)
(* C7                                                                      *)
(***************************************************************************)
\* C7: the aligned and the unaligned entry point of a vector kernel assign the
\* same values to the same registers in the same order in every lane, and leave
\* the same output.
C7_AlignedIsUnaligned ==
  kernel \in VectorKernels =>
    /\ \A l \in DOMAIN regs : regs[l] = Lane(Counterpart(kernel), regs[l].aVal)
    /\ pc = "done" =>
         \A i \in 0..(num_points - 1) :
           mem[bVector + i] = Output(Counterpart(kernel), mem0, aVector, num_points, i)

C7_Witness ==
  /\ pc = "done" /\ kernel = "u_sse4_1" /\ num_points = 9 /\ aVector = 1
  /\ regs[1] = Lane("a_sse4_1", mem0[aVector + 4])

(***************************************************************************)
(* C8                                                                      *)
(***************************************************************************)
\* C8: an output index is stored only after the same input index was loaded; no
\* address is loaded after it was stored to; so the output is the same whether
\* the output buffer is the input buffer or apart from it.
C8_InPlace ==
  /\ \A j \in 1..Len(hist) :
       hist[j][1] = "store" =>
         \E h \in 1..(j - 1) : hist[h][1] = "load" /\ Index(hist[h]) = Index(hist[j])
  /\ \A j \in 1..Len(hist) :
       hist[j][1] = "load" =>
         ~\E h \in 1..(j - 1) : hist[h][1] = "store" /\ hist[h][2] = hist[j][2]
  /\ pc = "done" =>
       \A i \in 0..(num_points - 1) :
         mem[bVector + i] = Output(kernel, mem0, aVector, num_points, i)

C8_Witness ==
  /\ pc = "done" /\ kernel = "u_avx2" /\ num_points = 9 /\ bVector = aVector
  /\ mem # mem0

(***************************************************************************)
(* C9                                                                      *)
(***************************************************************************)
\* The lane's final result is the negation of the value the blend left.
Negated(rf) == FEqual(rf.sine, FNeg(rf.trace[17]))
XNegative(rf) == rf.aVal.sign = 1 /\ ~IsZero(rf.aVal)

\* The rule with bit 2 of q read as the claim words it ("is zero") ...
C9_AsWorded ==
  \A l \in DOMAIN regs :
    ~IsZero(regs[l].trace[17]) =>
      (Negated(regs[l]) <=> ((~Bit(regs[l].q, 2)) # XNegative(regs[l])))
\* ... and as line 289 tests it ("is not zero").
C9_AsTested ==
  \A l \in DOMAIN regs :
    ~IsZero(regs[l].trace[17]) =>
      (Negated(regs[l]) <=> (Bit(regs[l].q, 2) # XNegative(regs[l])))

C10_SwapRule ==
  \A l \in DOMAIN regs :
    /\ regs[l].condition1 = Mask(Bit(regs[l].q + 1, 1))
    /\ regs[l].trace[17] =
         add_ps(regs[l].trace[13],
                and_ps(sub_ps(regs[l].cosine, regs[l].trace[13]), regs[l].condition1))
    /\ IF Bit(regs[l].q + 1, 1) THEN Near(regs[l].trace[17], regs[l].cosine)
       ELSE regs[l].trace[17] = regs[l].trace[13]
    /\ Statement(kernel, 15, [regs[l] EXCEPT !.q = regs[l].q % 8])[2] = regs[l].condition1
    /\ Statement(kernel, 16, [regs[l] EXCEPT !.q = regs[l].q % 8])[2] = regs[l].condition2

C10_Witness ==
  /\ pc = "vloop" /\ regs # <<>>
  /\ \E l \in DOMAIN regs : regs[l].q > 8 /\ Bit(regs[l].q + 1, 1)
  /\ \E l \in DOMAIN regs : ~Bit(regs[l].q + 1, 1)

(***************************************************************************)
(* C11                                                                     *)
(***************************************************************************)
PiOver4      == F32(0, 126, 4788186)   \* 0.785398126, the largest float <= pi/4
PiOver4Slack == F32(0, 126, 4788442)   \* 0.785413384, pi/4 + 2^-16

\* The lane's registers after lines 268-273: |x|, the count q0 = floor(|x| * 4/pi)
\* (the code's q), the rounded index q0 + (q0 & 1) (the code's r), and the reduced
\* angle after the two subtractions.
AbsX(rf)     == rf.trace[1]
Count(rf)    == rf.trace[2]
Rounded(rf)  == rf.trace[3]
Reduced(rf)  == rf.trace[5]

\* The lanes the claim speaks of: x finite and the count within the 32-bit integers.
Reducible(rf) ==
  /\ IsFinite(rf.aVal)
  /\ FLess(mul_ps(AbsX(rf), m4pi), Int32ToF(MaxInt32))

\* The rounded index is the count rounded up to even.
C11_Index ==
  \A l \in DOMAIN regs :
    Reducible(regs[l]) =>
      /\ FEqual(AbsX(regs[l]), FAbs(regs[l].aVal))   \* -0.0 stays -0.0
      /\ Count(regs[l]) = cvtps_epi32(floor_ps(mul_ps(AbsX(regs[l]), m4pi)))
      /\ Rounded(regs[l]) = Count(regs[l]) + (Count(regs[l]) % 2)
      /\ Rounded(regs[l]) % 2 = 0
      /\ Count(regs[l]) <= Rounded(regs[l]) /\ Rounded(regs[l]) <= Count(regs[l]) + 1
      /\ Reduced(regs[l]) =
           sub_ps(sub_ps(AbsX(regs[l]), mul_ps(cvtepi32_ps(Rounded(regs[l])), pio4A)),
                  mul_ps(cvtepi32_ps(Rounded(regs[l])), pio4B))

\* The statement as the claim makes it.  C11: for every finite x whose count fits
\* a 32-bit integer the rounded index is even and is the count or the count plus
\* one, the reduced angle |x| - index * (pio4A + pio4B) lies in [-pi/4, pi/4], and
\* the fix-up rules decide on that same rounded index.
C11_RangeReduction ==
  /\ C11_Index
  /\ \A l \in DOMAIN regs :
       Reducible(regs[l]) =>
         /\ ~FLess(PiOver4, FAbs(Reduced(regs[l])))
         /\ Statement(kernel, 15, [regs[l] EXCEPT !.q = Rounded(regs[l])])[2]
              = regs[l].condition1
         /\ Statement(kernel, 16, [regs[l] EXCEPT !.q = Rounded(regs[l])])[2]
              = regs[l].condition2

\* C11, amended: the rounded index is even and is the count or the count plus one;
\* for |x| <= 300 the reduced angle lies in [-pi/4 - 2^-16, pi/4 + 2^-16]; the
\* fix-up rules read the count itself, not the rounded index: their masks are those
\* of q = floor(|x| * 4/pi), the swap mask is the same for the count as for the
\* rounded index, and the bit the negation tests differs between the two exactly
\* when the count is 3 or 7 modulo 8.
C11_RangeReductionAmended ==
  /\ C11_Index
  /\ \A l \in DOMAIN regs :
       Reducible(regs[l]) =>
         /\ ~FLess(FewHundred, AbsX(regs[l])) =>
              ~FLess(PiOver4Slack, FAbs(Reduced(regs[l])))
         /\ regs[l].q = Count(regs[l])
         /\ regs[l].r = Rounded(regs[l])
         /\ Statement(kernel, 15, [regs[l] EXCEPT !.q = Count(regs[l])])[2]
              = regs[l].condition1
         /\ Statement(kernel, 16, [regs[l] EXCEPT !.q = Count(regs[l])])[2]
              = regs[l].condition2
         /\ Statement(kernel, 15, [regs[l] EXCEPT !.q = Rounded(regs[l])])[2]
              = regs[l].condition1
         /\ (Bit(Count(regs[l]), 2) # Bit(Rounded(regs[l]), 2))
              <=> (Count(regs[l]) % 8 \in {3, 7})

\* A group with a lane whose count is odd (the index is rounded up), a lane whose
\* reduced angle exceeds pi/4, and a lane whose count is 3 modulo 8.
C11_Witness ==
  /\ pc = "vloop" /\ regs # <<>>
  /\ \E l \in DOMAIN regs :
       Reducible(regs[l]) /\ Rounded(regs[l]) = Count(regs[l]) + 1
  /\ \E l \in DOMAIN regs :
       Reducible(regs[l]) /\ FLess(PiOver4, FAbs(Reduced(regs[l])))
  /\ \E l \in DOMAIN regs :
       Reducible(regs[l]) /\ Count(regs[l]) % 8 = 3
          /\ Statement(kernel, 16, [regs[l] EXCEPT !.q = Rounded(regs[l])])[2]
               # regs[l].condition2

=============================================================================
